---- MODULE Spec2Model ----
(***************************************************************************)
(* A model of demo3/web_crawler.py: the source classifier, the content,    *)
(* title and metadata extractors, crawl_article and the batch loop of      *)
(* main.                                                                   *)
(*                                                                         *)
(* A parsed document is a sequence of elements in document order           *)
(* (pre-order); element i names its parent (0: the document itself).  An   *)
(* element carries one run of own text of a given length, placed before    *)
(* its children.  decompose() is modelled by the set `alive` of elements   *)
(* still in the tree.  A text is the sequence of elements whose own text   *)
(* it joins, with its length as get_text computes it.                      *)
(*                                                                         *)
(* A URL is a sequence of atoms (pieces of the string such as "http:",     *)
(* "//", "@", "ycwb.com"); urlparse is modelled on those atoms.            *)
(***************************************************************************)
EXTENDS Integers, Sequences, FiniteSets, TLC

VARIABLES url, source, doc, alive, src, outs, ext, net, result, calls,
          test_urls, idx, results, events, pc

vars == <<url, source, doc, alive, src, outs, ext, net, result, calls,
          test_urls, idx, results, events, pc>>

\* ------------------------------------------------------------------ bounds
\* Elements per document in the extractor specification.
MaxNodes == 2
\* Content-extractor calls on one parsed document.
MaxCalls == 2
\* Elements per document in the idempotence specification.
IdemNodes == 4
\* Atoms per URL in the classifier specification.
MaxUrlLen == 5
\* URLs in a batch.
MaxUrls == 2
\* Elements per document fetched in the batch specification.
BatchNodes == 1
\* Elements per document in the title specification.
TitleNodes == 2
\* Elements per document in the metadata specification.
MetaNodes == 3

\* --------------------------------------------------------- program constants
\* len(content) > 200: a specific candidate is accepted and the scan stops.
AcceptLen == 200
\* len(content) < 200: the fallback tier runs.
FallbackLen == 200
\* len(content) > 100: the crawl is a success.
SuccessLen == 100
\* len(title) > 5: a title candidate is accepted.
TitleLen == 5

\* ---------------------------------------------------------------- documents
Kind(t, c, i) == [tag |-> t, cls |-> c, id |-> i]
KMain == Kind("main", <<>>, "")
KArticle == Kind("article", <<>>, "")
KDivId == Kind("div", <<>>, "content")
KDivContent == Kind("div", <<"content">>, "")
KDivText == Kind("div", <<"text">>, "")
KHeader == Kind("header", <<>>, "")
KAside == Kind("aside", <<>>, "")
KH1 == Kind("h1", <<>>, "")
KTitle == Kind("title", <<>>, "")
KH1ArticleTitle == Kind("h1", <<"article", "title">>, "")
KDivTitle == Kind("div", <<"title">>, "")
KH1MainTitle == Kind("h1", <<"main", "title">>, "")
KSpanAuthor == Kind("span", <<"author">>, "")
KTime == Kind("time", <<>>, "")

\* The element kinds and own-text lengths the documents are drawn from.
ContentKinds == {KMain, KArticle, KDivId, KDivContent, KDivText, KHeader, KAside}
TextLens == {0, 100, 101, 200, 201}
IdemKinds == {KArticle, KDivContent, KHeader}
IdemLens == {100, 201}
\* The own-text lengths of the pages one crawl fetches: around the success
\* threshold, and above the acceptance threshold.
CrawlLens == {0, 100, 101, 201}
\* The elements the title selectors tell apart, with text around the title
\* threshold.
TitleKinds == {KH1, KTitle, KH1ArticleTitle, KDivTitle, KH1MainTitle}
TitleLens == {0, 5, 6}
\* Pages with an author and a date, inside or outside an article's header.
MetaKinds == {KArticle, KHeader, KSpanAuthor, KTime}
MetaLens == {7, 201}
\* The pages of the batch: an article long enough to succeed, or nothing.
BatchKinds == {KArticle}
BatchLens == {101}

Node(k, l, p) == [tag |-> k.tag, cls |-> k.cls, id |-> k.id, len |-> l, parent |-> p]

\* a is a proper ancestor of n in d.
RECURSIVE IsAncestor(_, _, _)
IsAncestor(d, a, n) ==
    /\ n # 0
    /\ d[n].parent # 0
    /\ (d[n].parent = a \/ IsAncestor(d, a, d[n].parent))

\* The parents a next element may have for the sequence to stay a pre-order:
\* the document, the last element, or an ancestor of the last element.
OpenElements(d) ==
    {0} \cup { a \in 1..Len(d) : a = Len(d) \/ IsAncestor(d, a, Len(d)) }

\* The documents of n elements of the given kinds and own-text lengths.
RECURSIVE DocsOfLen(_, _, _)
DocsOfLen(n, kinds, lens) ==
    IF n = 0 THEN {<<>>}
    ELSE { Append(t[1], Node(t[2], t[3], t[4])) :
             t \in { x \in DocsOfLen(n - 1, kinds, lens) \X kinds \X lens \X (0..(n - 1)) :
                       x[4] \in OpenElements(x[1]) } }

AllOf(d) == 1..Len(d)

\* ---------------------------------------------------------------- selectors
\* A CSS selector of the forms the crawler uses: tag, tag.class,
\* tag[class*="sub"], [class*="sub"]; tag "" is any tag.
Sel(t, c, s) == [tag |-> t, cls |-> c, sub |-> s]

\* class*="sub": the class attribute contains the substring.
ClassContains(c, s) == \E j \in 1..Len(c) : c[j] = s

Matches(sel, e) ==
    /\ sel.tag = "" \/ e.tag = sel.tag
    /\ sel.cls = <<>> \/ e.cls = sel.cls
    /\ sel.sub = "" \/ ClassContains(e.cls, sel.sub)

Min(S) == CHOOSE x \in S : \A y \in S : x <= y

\* soup.select_one(selector): the first matching element in document order, 0
\* when there is none.
SelectOne(d, al, sel) ==
    LET m == { i \in al : Matches(sel, d[i]) }
    IN IF m = {} THEN 0 ELSE Min(m)

\* soup.find(tag) / soup.find('div', {'id': ...}) / soup.find('div', {'class': ...})
FindTag(d, al, t) == SelectOne(d, al, Sel(t, <<>>, ""))

FindDivId(d, al, i) ==
    LET m == { n \in al : d[n].tag = "div" /\ d[n].id = i }
    IN IF m = {} THEN 0 ELSE Min(m)

FindDivClass(d, al, c) == SelectOne(d, al, Sel("div", <<c>>, ""))

\* a or b, as Python's `or` on elements.
OrElse(a, b) == IF a # 0 THEN a ELSE b

\* ---------------------------------------------------- stripping and get_text
StripTags == {"script", "style", "nav", "footer", "header"}
StripTagsFallback == StripTags \cup {"aside"}

\* for x in element(tags): x.decompose()
\* Every descendant of e with one of the tags leaves the tree with its subtree.
Strip(d, al, e, tags) ==
    LET hit == { n \in al : IsAncestor(d, e, n) /\ d[n].tag \in tags }
    IN { n \in al : n \notin hit /\ \A h \in hit : ~IsAncestor(d, h, n) }

RECURSIVE SumLens(_, _)
SumLens(d, s) == IF s = <<>> THEN 0 ELSE d[Head(s)].len + SumLens(d, Tail(s))

\* The elements of e's subtree that hold a non-empty string, in document order.
TextNodes(d, al, e) ==
    LET Holds(i) == i \in al /\ (i = e \/ IsAncestor(d, e, i)) /\ d[i].len > 0
    IN SelectSeq([i \in 1..Len(d) |-> i], Holds)

NoText == [nodes |-> <<>>, len |-> 0]

\* element.get_text(separator='\n', strip=True)
GetText(d, al, e) ==
    LET ns == TextNodes(d, al, e)
    IN IF ns = <<>> THEN NoText
       ELSE [nodes |-> ns, len |-> SumLens(d, ns) + (Len(ns) - 1)]

\* element.get_text(strip=True): no separator.
GetTextJoined(d, al, e) ==
    LET ns == TextNodes(d, al, e)
    IN [nodes |-> ns, len |-> SumLens(d, ns)]

\* ------------------------------------------------------- content extractors
SouthcnSelectors ==
    << Sel("div", <<"article", "content">>, ""),
       Sel("div", <<"content">>, ""),
       Sel("div", <<"article", "body">>, ""),
       Sel("div", <<>>, "content"),
       Sel("div", <<>>, "article"),
       Sel("article", <<>>, ""),
       Sel("div", <<"text">>, "") >>

YcwbSelectors == Append(SouthcnSelectors, Sel("div", <<"main", "content">>, ""))

ChinanewsSelectors ==
    << Sel("div", <<"left_zw">>, ""),
       Sel("div", <<"content">>, ""),
       Sel("div", <<"article", "content">>, ""),
       Sel("div", <<>>, "content"),
       Sel("div", <<>>, "article"),
       Sel("article", <<>>, ""),
       Sel("div", <<"text">>, "") >>

\* What one extractor call did: the tree and the text it leaves, the specific
\* candidates it evaluated (selector index, element, text), whether the
\* fallback tier was evaluated and the container it found (0: none).
Extraction(al, c, cs, f, fe) ==
    [alive |-> al, content |-> c, cands |-> cs, fb |-> f, fbElem |-> fe]

\* if len(content) > 200: break
Accepts(t) == t.len > AcceptLen

\* if not content or len(content) < 200:
NeedsFallbackEmptyOnly(t) == t.len = 0
NeedsFallback(t) == t.len = 0 \/ t.len < FallbackLen

\* for selector in selectors: ... (from selector k on)
RECURSIVE SelectorLoop(_, _, _, _, _, _)
SelectorLoop(d, al, sels, k, content, cs) ==
    IF k > Len(sels) THEN Extraction(al, content, cs, FALSE, 0)
    ELSE LET e == SelectOne(d, al, sels[k])
         IN IF e = 0 THEN SelectorLoop(d, al, sels, k + 1, content, cs)
            ELSE LET al2 == Strip(d, al, e, StripTags)
                     t == GetText(d, al2, e)
                     cs2 == Append(cs, [sel |-> k, elem |-> e, text |-> t])
                 IN IF Accepts(t) THEN Extraction(al2, t, cs2, FALSE, 0)
                    ELSE SelectorLoop(d, al2, sels, k + 1, t, cs2)

\* main_content = soup.find('main') or soup.find('article')
\*                or soup.find('div', {'id': 'content'})
FallbackContainer(d, al) ==
    OrElse(FindTag(d, al, "main"),
           OrElse(FindTag(d, al, "article"), FindDivId(d, al, "content")))

\* The fallback tier of the three known-source extractors.
FallbackTier(d, r) ==
    IF ~NeedsFallback(r.content) THEN r
    ELSE LET e == FallbackContainer(d, r.alive)
         IN IF e = 0 THEN Extraction(r.alive, r.content, r.cands, TRUE, 0)
            ELSE LET al2 == Strip(d, r.alive, e, StripTagsFallback)
                 IN Extraction(al2, GetText(d, al2, e), r.cands, TRUE, e)

ExtractKnown(d, al, sels) ==
    FallbackTier(d, SelectorLoop(d, al, sels, 1, NoText, <<>>))

extract_southcn(d, al) == ExtractKnown(d, al, SouthcnSelectors)
extract_ycwb(d, al) == ExtractKnown(d, al, YcwbSelectors)
extract_chinanews(d, al) == ExtractKnown(d, al, ChinanewsSelectors)

\* main = soup.find('main') or soup.find('div', {'id': 'content'})
\*        or soup.find('div', {'class': 'content'})
GenericContainerAnyDiv(d, al) ==
    OrElse(FindTag(d, al, "main"),
           OrElse(FindDivId(d, al, "content"), FindTag(d, al, "div")))
GenericContainer(d, al) ==
    OrElse(FindTag(d, al, "main"),
           OrElse(FindDivId(d, al, "content"), FindDivClass(d, al, "content")))

\* The second step of extract_generic, after the article step left the text t
\* of element a (0: no article).  extract_generic has no specific selectors:
\* cands is empty, the whole function is the generic tier (fb) and fbElem is
\* the element whose text it returns.
GenericSecondDropsArticle(d, al, t, a) ==
    IF ~NeedsFallback(t) THEN Extraction(al, t, <<>>, TRUE, a)
    ELSE LET e == GenericContainer(d, al)
         IN IF e = 0 THEN Extraction(al, NoText, <<>>, TRUE, 0)
            ELSE LET al2 == Strip(d, al, e, StripTagsFallback)
                 IN Extraction(al2, GetText(d, al2, e), <<>>, TRUE, e)
GenericSecond(d, al, t, a) ==
    IF ~NeedsFallback(t) THEN Extraction(al, t, <<>>, TRUE, a)
    ELSE LET e == GenericContainer(d, al)
         IN IF e = 0 THEN Extraction(al, t, <<>>, TRUE, a)
            ELSE LET al2 == Strip(d, al, e, StripTagsFallback)
                 IN Extraction(al2, GetText(d, al2, e), <<>>, TRUE, e)

extract_generic(d, al) ==
    LET a == FindTag(d, al, "article")
    IN IF a = 0 THEN GenericSecond(d, al, NoText, 0)
       ELSE LET al2 == Strip(d, al, a, StripTagsFallback)
            IN GenericSecond(d, al2, GetText(d, al2, a), a)

SourceIds == {"southcn", "ycwb", "chinanews", "unknown"}
KnownSources == {"southcn", "ycwb", "chinanews"}

\* The dispatch of crawl_article on result['source'].
ExtractContent(s, d, al) ==
    CASE s = "southcn" -> extract_southcn(d, al)
      [] s = "ycwb" -> extract_ycwb(d, al)
      [] s = "chinanews" -> extract_chinanews(d, al)
      [] OTHER -> extract_generic(d, al)

\* ------------------------------------------------------- source classifier
\* The atoms the classifier's URLs are drawn from.
ClassifyAtoms ==
    {"http:", "/", "@", "[", "x", "southcn", "ycwb.com", "chinanews.com.cn", "YCWB.COM"}

\* Atoms made only of characters a URL scheme may hold (letters, digits, + - .).
SchemeCharAtoms ==
    {"x", "www.", "news.", "southcn", "southcn.com", "ycwb.com", "chinanews.com.cn",
     "YCWB.COM"}

\* str.lower() of an atom.
LowerAtom(a) == IF a = "YCWB.COM" THEN "ycwb.com" ELSE a
Lower(s) == [i \in 1..Len(s) |-> LowerAtom(s[i])]

\* The substrings of interest that an atom holds.
SubstringsOf(a) ==
    CASE a = "southcn" -> {"southcn"}
      [] a = "southcn.com" -> {"southcn", "southcn.com"}
      [] a = "ycwb.com" -> {"ycwb.com"}
      [] a = "chinanews.com.cn" -> {"chinanews.com.cn"}
      [] OTHER -> {}

\* sub in s
Contains(s, sub) == \E i \in 1..Len(s) : sub \in SubstringsOf(s[i])

FirstIndex(s, S) ==
    LET m == { i \in 1..Len(s) : s[i] \in S } IN IF m = {} THEN 0 ELSE Min(m)

\* urlsplit's scheme step: the text before the first ':' is the scheme when it
\* is made of scheme characters; the rest follows the ':'.
AfterScheme(u) ==
    LET i == FirstIndex(u, {"http:"})
    IN IF i # 0 /\ \A j \in 1..(i - 1) : u[j] \in SchemeCharAtoms
       THEN SubSeq(u, i + 1, Len(u))
       ELSE u

\* urlsplit's netloc step: after a leading "//", the text up to the next '/'.
Netloc(u) ==
    LET r == AfterScheme(u)
    IN IF Len(r) >= 2 /\ r[1] = "/" /\ r[2] = "/"
       THEN LET t == SubSeq(r, 3, Len(r))
                j == FirstIndex(t, {"/"})
            IN IF j = 0 THEN t ELSE SubSeq(t, 1, j - 1)
       ELSE <<>>

\* urlsplit raises ValueError("Invalid IPv6 URL") on a netloc with an
\* unbalanced bracket.
UrlparseRaises(u) == \E i \in 1..Len(Netloc(u)) : Netloc(u)[i] = "["

Domain(u) == Lower(Netloc(u))

\* identify_source(url): "ValueError" stands for the exception urlparse raises.
identify_source(u) ==
    IF UrlparseRaises(u) THEN "ValueError"
    ELSE LET domain == Domain(u)
         IN IF Contains(domain, "southcn.com") \/ Contains(domain, "southcn")
            THEN "southcn"
            ELSE IF Contains(domain, "ycwb.com") THEN "ycwb"
            ELSE IF Contains(domain, "chinanews.com.cn") THEN "chinanews"
            ELSE "unknown"

\* ---------------------------------------------------------------- fetch_url
FetchFailures == {"timeout", "connection", "http_status", "other"}

\* What requests.get and raise_for_status can do: a page, or a failure.
Page(h) == [kind |-> "ok", html |-> h]
Failure(k) == [kind |-> k, html |-> <<>>]

\* The markup of a page is the tree html.parser builds from it;
\* "unparseable" is markup on which BeautifulSoup raises.
Unparseable == <<[tag |-> "unparseable", cls |-> <<>>, id |-> "", len |-> 0, parent |-> 0]>>

FetchUrlTimeoutAsRequestError(n) ==
    CASE n.kind = "ok" -> [ok |-> TRUE, body |-> n.html, msg |-> <<>>]
      [] n.kind \in {"timeout", "connection", "http_status"} ->
            [ok |-> FALSE, body |-> <<>>, msg |-> <<"Request error: ", n.kind>>]
      [] OTHER -> [ok |-> FALSE, body |-> <<>>, msg |-> <<"Unexpected error: ", n.kind>>]
fetch_url(n) ==
    CASE n.kind = "ok" -> [ok |-> TRUE, body |-> n.html, msg |-> <<>>]
      [] n.kind = "timeout" -> [ok |-> FALSE, body |-> <<>>, msg |-> <<"Request timeout">>]
      [] n.kind \in {"connection", "http_status"} ->
            [ok |-> FALSE, body |-> <<>>, msg |-> <<"Request error: ", n.kind>>]
      [] OTHER -> [ok |-> FALSE, body |-> <<>>, msg |-> <<"Unexpected error: ", n.kind>>]

\* ------------------------------------------------------- title and metadata
TitleSelectors ==
    << Sel("h1", <<>>, ""),
       Sel("title", <<>>, ""),
       Sel("h1", <<"article", "title">>, ""),
       Sel("div", <<"title">>, ""),
       Sel("h1", <<>>, "title") >>

\* for selector in title_selectors: ... (from selector k on)
TitleLoopNoSkip(d, al, k) ==
    IF k > Len(TitleSelectors) THEN NoText
    ELSE LET e == SelectOne(d, al, TitleSelectors[k])
             t == GetTextJoined(d, al, e)
         IN IF e # 0 /\ t.len > TitleLen THEN t ELSE NoText
RECURSIVE TitleLoop(_, _, _)
TitleLoop(d, al, k) ==
    IF k > Len(TitleSelectors) THEN NoText
    ELSE LET e == SelectOne(d, al, TitleSelectors[k])
             t == GetTextJoined(d, al, e)
         IN IF e # 0 /\ t.len > TitleLen THEN t ELSE TitleLoop(d, al, k + 1)

extract_title(d, al) == TitleLoop(d, al, 1)

AuthorSelectors ==
    << Sel("span", <<"author">>, ""),
       Sel("div", <<"author">>, ""),
       Sel("p", <<"author">>, ""),
       Sel("", <<>>, "author"),
       Sel("", <<>>, "byline") >>

DateSelectors ==
    << Sel("span", <<"date">>, ""),
       Sel("div", <<"date">>, ""),
       Sel("p", <<"date">>, ""),
       Sel("time", <<>>, ""),
       Sel("", <<>>, "date"),
       Sel("", <<>>, "time") >>

\* The text of the first selector that matches an element, empty when none does.
RECURSIVE FirstMatchText(_, _, _, _)
FirstMatchText(d, al, sels, k) ==
    IF k > Len(sels) THEN NoText
    ELSE LET e == SelectOne(d, al, sels[k])
         IN IF e # 0 THEN GetTextJoined(d, al, e)
            ELSE FirstMatchText(d, al, sels, k + 1)

extract_metadata(d, al, u) ==
    [author |-> FirstMatchText(d, al, AuthorSelectors, 1),
     publish_date |-> FirstMatchText(d, al, DateSelectors, 1),
     source_url |-> u]

\* ------------------------------------------------------------ crawl_article
None == <<>>
EmptyDict == [k \in {} |-> None]

\* if result['content'] and len(result['content']) > 100:
IsSuccessAtLeast(c) == c.len > 0 /\ c.len >= SuccessLen
IsSuccess(c) == c.len > 0 /\ c.len > SuccessLen

\* result['error'] = f"Extracted content too short ({n} chars)"
TooShortNone(n) == None
TooShort(n) == <<"Extracted ", "content too short (", ToString(n), " chars)">>

\* The result dict as crawl_article first builds it.
InitialResult(u, s) ==
    [url |-> u, success |-> FALSE, source |-> s, title |-> NoText,
     content |-> NoText, content_length |-> 0, metadata |-> EmptyDict,
     error |-> None]

\* What one crawl_article call did: whether it raised, the result it returned,
\* the operations it performed in order, and the tree it parsed and left.
Crawled(ra, re, cs, d, al) ==
    [raised |-> ra, result |-> re, calls |-> cs, doc |-> d, alive |-> al]

\* crawl_article from the parsed tree on.
ExtractAll(u, s, d) ==
    LET title == extract_title(d, AllOf(d))
        x == ExtractContent(s, d, AllOf(d))
        meta == extract_metadata(d, x.alive, u)
        ok == IsSuccess(x.content)
    IN Crawled(FALSE,
               [url |-> u, success |-> ok, source |-> s, title |-> title,
                content |-> x.content, content_length |-> x.content.len,
                metadata |-> meta,
                error |-> IF ok THEN None ELSE TooShort(x.content.len)],
               <<"identify_source", "fetch_url", "parse", "extract_title",
                 "extract_content", "extract_metadata">>,
               d, x.alive)

\* crawl_article(url): identify the source, fetch once, parse, extract.
CrawlArticleRetry(u, n) ==
    LET s == identify_source(u)
        f == fetch_url(n)
    IN IF s = "ValueError"
       THEN Crawled(TRUE, InitialResult(u, s), <<"identify_source">>, <<>>, {})
       ELSE IF ~f.ok
       THEN Crawled(FALSE, [InitialResult(u, s) EXCEPT !.error = f.msg],
                    <<"identify_source", "fetch_url", "fetch_url">>, <<>>, {})
       ELSE IF f.body = Unparseable
       THEN Crawled(FALSE,
                    [InitialResult(u, s) EXCEPT
                        !.error = <<"HTML parsing error: ", "unparseable">>],
                    <<"identify_source", "fetch_url", "parse">>, <<>>, {})
       ELSE ExtractAll(u, s, f.body)
crawl_article(u, n) ==
    LET s == identify_source(u)
        f == fetch_url(n)
    IN IF s = "ValueError"
       THEN Crawled(TRUE, InitialResult(u, s), <<"identify_source">>, <<>>, {})
       ELSE IF ~f.ok
       THEN Crawled(FALSE, [InitialResult(u, s) EXCEPT !.error = f.msg],
                    <<"identify_source", "fetch_url">>, <<>>, {})
       ELSE IF f.body = Unparseable
       THEN Crawled(FALSE,
                    [InitialResult(u, s) EXCEPT
                        !.error = <<"HTML parsing error: ", "unparseable">>],
                    <<"identify_source", "fetch_url", "parse">>, <<>>, {})
       ELSE ExtractAll(u, s, f.body)

\* --------------------------------------------------------------------- main
SouthcnUrl == <<"http:", "/", "/", "southcn.com", "/", "x">>
YcwbUrl == <<"http:", "/", "/", "news.", "ycwb.com", "/", "x">>
ChinanewsUrl == <<"http:", "/", "/", "www.", "chinanews.com.cn", "/", "x">>
UnknownUrl == <<"http:", "/", "/", "x", "/", "x">>
MalformedUrl == <<"http:", "/", "/", "[", "x">>

\* The fallback test_urls of main.
FallbackUrls == <<SouthcnUrl, YcwbUrl, ChinanewsUrl>>

\* The URLs handed to crawl_article: the article URLs of the upstream API are
\* arbitrary strings.
CrawlUrls == {SouthcnUrl, YcwbUrl, ChinanewsUrl, UnknownUrl, MalformedUrl}

\* The documents of m elements a page may parse to.
Docs(m) == DocsOfLen(m, ContentKinds, CrawlLens)

\* ------------------------------------------------------------ state machine
NoExtraction == Extraction({}, NoText, <<>>, FALSE, 0)
NoNet == Failure("none")
NoResult == InitialResult(<<>>, "")

\* ---- the source classifier on one URL
InitClassify ==
    /\ \E m \in 0..MaxUrlLen : url \in [1..m -> ClassifyAtoms]
    /\ pc = "classify"
    /\ source = "" /\ doc = <<>> /\ alive = {} /\ src = ""
    /\ outs = <<>> /\ ext = NoExtraction /\ net = NoNet /\ result = NoResult
    /\ calls = <<>> /\ test_urls = <<>> /\ idx = 0 /\ results = <<>>
    /\ events = <<>>

Classify ==
    /\ pc = "classify"
    /\ source' = identify_source(url)
    /\ pc' = "classified"
    /\ UNCHANGED <<url, doc, alive, src, outs, ext, net, result, calls,
                   test_urls, idx, results, events>>

SpecClassify == InitClassify /\ [][Classify]_vars

\* ---- the content extractor, called on one parsed document
InitDoc(lo, hi, kinds, lens) ==
    /\ \E m \in lo..hi : doc \in DocsOfLen(m, kinds, lens)
    /\ alive = AllOf(doc)
    /\ pc = "extract"
    /\ url = <<>> /\ source = "" /\ src = ""
    /\ outs = <<>> /\ ext = NoExtraction /\ net = NoNet /\ result = NoResult
    /\ calls = <<>> /\ test_urls = <<>> /\ idx = 0 /\ results = <<>>
    /\ events = <<>>

\* One call of the extractor of source s on the tree as the calls before left it.
Call(s, x) ==
    /\ pc = "extract"
    /\ Len(outs) < MaxCalls
    /\ src \in {"", s}
    /\ src' = s
    /\ alive' = x.alive
    /\ outs' = Append(outs, x.content)
    /\ ext' = x
    /\ UNCHANGED <<url, source, doc, net, result, calls, test_urls, idx,
                   results, events, pc>>

CallSouthcn == Call("southcn", extract_southcn(doc, alive))
CallYcwb == Call("ycwb", extract_ycwb(doc, alive))
CallChinanews == Call("chinanews", extract_chinanews(doc, alive))
CallGeneric == Call("unknown", extract_generic(doc, alive))

\* The extractor called once on a document.
NextExtract ==
    /\ outs = <<>>
    /\ (CallSouthcn \/ CallYcwb \/ CallChinanews \/ CallGeneric)

InitExtract == InitDoc(0, MaxNodes, ContentKinds, TextLens)
SpecExtract == InitExtract /\ [][NextExtract]_vars

\* The extractor called again and again on the tree it left.
NextIdem == CallSouthcn \/ CallYcwb \/ CallChinanews \/ CallGeneric

InitIdem == InitDoc(IdemNodes, IdemNodes, IdemKinds, IdemLens)
SpecIdem == InitIdem /\ [][NextIdem]_vars

\* ---- one crawl_article call
Init ==
    /\ url \in CrawlUrls
    /\ pc = "crawl"
    /\ source = "" /\ doc = <<>> /\ alive = {} /\ src = ""
    /\ outs = <<>> /\ ext = NoExtraction /\ net = NoNet /\ result = NoResult
    /\ calls = <<>> /\ test_urls = <<>> /\ idx = 0 /\ results = <<>>
    /\ events = <<>>

\* crawl_article(url), the network answering n to the fetch; a call that raises
\* before it fetches receives no answer.
CrawlWith(n) ==
    \E c \in {crawl_article(url, n)} :
       /\ net' = IF c.raised THEN NoNet ELSE n
       /\ result' = c.result
       /\ calls' = c.calls
       /\ doc' = c.doc
       /\ alive' = c.alive
       /\ pc' = IF c.raised THEN "raised" ELSE "returned"
       /\ UNCHANGED <<url, source, src, outs, ext, test_urls, idx, results, events>>

\* The network may fail, answer markup that does not parse, or answer a page.
Crawl ==
    /\ pc = "crawl"
    /\ \/ \E k \in FetchFailures : CrawlWith(Failure(k))
       \/ CrawlWith(Page(Unparseable))
       \/ \E m \in 0..MaxNodes : \E d \in Docs(m) : CrawlWith(Page(d))

Next == Crawl
Spec == Init /\ [][Next]_vars

\* ---- one crawl_article call on a page that names its author and date
CrawlMeta ==
    /\ pc = "crawl"
    /\ \E m \in 0..MetaNodes :
          \E d \in DocsOfLen(m, MetaKinds, MetaLens) : CrawlWith(Page(d))

SpecMeta == Init /\ [][CrawlMeta]_vars

\* ---- the batch loop of main
InitBatch ==
    /\ \E m \in 0..MaxUrls : test_urls \in [1..m -> CrawlUrls]
    /\ pc = "start"
    /\ url = <<>> /\ source = "" /\ doc = <<>> /\ alive = {} /\ src = ""
    /\ outs = <<>> /\ ext = NoExtraction /\ net = NoNet /\ result = NoResult
    /\ calls = <<>> /\ idx = 0 /\ results = <<>> /\ events = <<>>

\* if not test_urls: test_urls = [...]; results = []
MainStart ==
    /\ pc = "start"
    /\ test_urls' = IF test_urls = <<>> THEN FallbackUrls ELSE test_urls
    /\ idx' = 1
    /\ results' = <<>>
    /\ pc' = "loop"
    /\ UNCHANGED <<url, source, doc, alive, src, outs, ext, net, result, calls,
                   events>>

Event(e, i) == [op |-> e, i |-> i]

\* One iteration of the for loop: crawl_article, results.append, time.sleep(1).
\* An exception crawl_article raises leaves main.  The network answers n.
MainIterSleepOnSuccess(n) ==
    \E c \in {crawl_article(test_urls[idx], n)} :
    LET fetched == IF \E j \in 1..Len(c.calls) : c.calls[j] = "fetch_url"
                   THEN <<Event("fetch", idx)>> ELSE <<>>
        slept == IF c.result.success THEN <<Event("sleep", idx)>> ELSE <<>>
    IN /\ net' = IF c.raised THEN NoNet ELSE n
       /\ calls' = c.calls
       /\ IF c.raised
          THEN /\ pc' = "crashed"
               /\ events' = events \o fetched
               /\ UNCHANGED <<results, idx>>
          ELSE /\ pc' = "loop"
               /\ results' = Append(results, c.result)
               /\ events' = events \o fetched \o slept
               /\ idx' = idx + 1
       /\ UNCHANGED <<url, source, doc, alive, src, outs, ext, result, test_urls>>
MainIterWith(n) ==
    \E c \in {crawl_article(test_urls[idx], n)} :
    LET fetched == IF \E j \in 1..Len(c.calls) : c.calls[j] = "fetch_url"
                   THEN <<Event("fetch", idx)>> ELSE <<>>
    IN /\ net' = IF c.raised THEN NoNet ELSE n
       /\ calls' = c.calls
       /\ IF c.raised
          THEN /\ pc' = "crashed"
               /\ events' = events \o fetched
               /\ UNCHANGED <<results, idx>>
          ELSE /\ pc' = "loop"
               /\ results' = Append(results, c.result)
               /\ events' = events \o fetched \o <<Event("sleep", idx)>>
               /\ idx' = idx + 1
       /\ UNCHANGED <<url, source, doc, alive, src, outs, ext, result, test_urls>>

MainIter ==
    /\ pc = "loop"
    /\ idx <= Len(test_urls)
    /\ \/ \E k \in FetchFailures : MainIterWith(Failure(k))
       \/ MainIterWith(Page(Unparseable))
       \/ \E m \in 0..BatchNodes :
             \E d \in DocsOfLen(m, BatchKinds, BatchLens) : MainIterWith(Page(d))

\* The loop is over: the summary is printed and the results are saved.
MainFinish ==
    /\ pc = "loop"
    /\ idx > Len(test_urls)
    /\ pc' = "done"
    /\ UNCHANGED <<url, source, doc, alive, src, outs, ext, net, result, calls,
                   test_urls, idx, results, events>>

NextBatch == MainStart \/ MainIter \/ MainFinish
SpecBatch == InitBatch /\ [][NextBatch]_vars

\* ---- the title extractor, called on one parsed document
InitTitle ==
    /\ \E m \in 0..TitleNodes : doc \in DocsOfLen(m, TitleKinds, TitleLens)
    /\ alive = AllOf(doc)
    /\ pc = "title"
    /\ url = <<>> /\ source = "" /\ src = ""
    /\ outs = <<>> /\ ext = NoExtraction /\ net = NoNet /\ result = NoResult
    /\ calls = <<>> /\ test_urls = <<>> /\ idx = 0 /\ results = <<>>
    /\ events = <<>>

ExtractTitle ==
    /\ pc = "title"
    /\ outs' = <<extract_title(doc, alive)>>
    /\ pc' = "titled"
    /\ UNCHANGED <<url, source, doc, alive, src, ext, net, result, calls,
                   test_urls, idx, results, events>>

SpecTitle == InitTitle /\ [][ExtractTitle]_vars

\* =================================================================== claims
Last(s) == s[Len(s)]
Returned == pc = "returned"
\* The fetch and the parse succeeded: net.html is the parsed document.
Extracted == Returned /\ net.kind = "ok" /\ net.html # Unparseable
IsArticle(e) == e.tag = "article"
IsMain(e) == e.tag = "main"
IsDivIdContent(e) == e.tag = "div" /\ e.id = "content"
IsDivClassContent(e) == e.tag = "div" /\ e.cls = <<"content">>
\* A container identified as content by its id or its class.
IsContentIdentified(e) == e.id = "content" \/ ClassContains(e.cls, "content")
HasArticle(d) == \E i \in 1..Len(d) : IsArticle(d[i])
HasMain(d) == \E i \in 1..Len(d) : IsMain(d[i])
HasDivIdContent(d) == \E i \in 1..Len(d) : IsDivIdContent(d[i])
HasDivClassContent(d) == \E i \in 1..Len(d) : IsDivClassContent(d[i])
HasContentIdentified(d) == \E i \in 1..Len(d) : IsContentIdentified(d[i])
ErrorEndsTooShortZero(e) ==
    /\ Len(e) >= 3
    /\ SubSeq(e, Len(e) - 2, Len(e)) = <<"content too short (", "0", " chars)">>

\* C1: every result crawl_article returns, on the fetch-failure, parse-failure
\* and extraction paths alike, has success = TRUE exactly when
\* content_length > 100.
C1_SuccessIffLong ==
    Returned => (result.success <=> result.content_length > 100)

\* C1 witness: an extraction that completed with more than 100 characters.
C1_Witness ==
    /\ Extracted
    /\ result.success
    /\ result.content_length > 100
    /\ C1_SuccessIffLong

\* C2 as stated: when a specific candidate of a known source yields text of
\* length >= 200, the extractor returns the first such candidate's text (no
\* later selector's text in its place) and does not evaluate the fallback tier.
C2_LongCandidateReturned ==
    (pc = "extract" /\ outs # <<>> /\ src \in KnownSources
        /\ \E k \in 1..Len(ext.cands) : ext.cands[k].text.len >= 200)
    => LET k == Min({ j \in 1..Len(ext.cands) : ext.cands[j].text.len >= 200 })
       IN /\ Last(outs) = ext.cands[k].text
          /\ ~ext.fb

\* Every specific candidate of the last call (of a known source) was shorter
\* than 200 characters; none matching is included.
AllCandidatesShort ==
    /\ pc = "extract" /\ outs # <<>> /\ src \in KnownSources
    /\ \A k \in 1..Len(ext.cands) : ext.cands[k].text.len < 200

\* C3 as stated: when every specific candidate is shorter than 200, the
\* fallback is invoked and the return value is the fallback's result, empty
\* when no fallback container exists.
C3_FallbackResultOrEmpty ==
    AllCandidatesShort
    => /\ ext.fb
       /\ Last(outs) = IF ext.fbElem # 0 THEN GetText(doc, alive, ext.fbElem)
                       ELSE NoText

\* C3 as amended: when every specific candidate is shorter than 200, the
\* fallback is invoked; the return value is the fallback container's text when
\* a container exists (even if shorter than a candidate's), and otherwise the
\* text of the last matching specific selector (empty when none matched).
C3_FallbackResultOrLastCandidate ==
    AllCandidatesShort
    => /\ ext.fb
       /\ Last(outs) = IF ext.fbElem # 0 THEN GetText(doc, alive, ext.fbElem)
                       ELSE IF ext.cands = <<>> THEN NoText
                       ELSE Last(ext.cands).text

\* C3 witness: the fallback's text is returned although a specific candidate
\* had more text.
C3_Witness ==
    /\ AllCandidatesShort
    /\ ext.fb /\ ext.fbElem # 0
    /\ Last(outs) = GetText(doc, alive, ext.fbElem)
    /\ \E k \in 1..Len(ext.cands) : ext.cands[k].text.len > Last(outs).len

\* C4 as stated: two content-extractor calls in a row on the same parsed
\* document return the same text.
C4_Idempotent ==
    Len(outs) >= 2 => outs[1] = outs[2]

\* The host of a URL: its netloc without the userinfo before the last '@'.
Host(u) ==
    LET n == Netloc(u)
        m == { i \in 1..Len(n) : n[i] = "@" }
    IN IF m = {} THEN n ELSE SubSeq(n, (CHOOSE i \in m : \A j \in m : j <= i) + 1, Len(n))

\* C5 as stated: the source is decided by the lowercased host alone: southcn
\* when it contains "southcn", else ycwb for "ycwb.com", else chinanews for
\* "chinanews.com.cn", else unknown.
C5_SourceByHost ==
    (pc = "classified" /\ source # "ValueError")
    => LET h == Lower(Host(url))
       IN source = IF Contains(h, "southcn") THEN "southcn"
                   ELSE IF Contains(h, "ycwb.com") THEN "ycwb"
                   ELSE IF Contains(h, "chinanews.com.cn") THEN "chinanews"
                   ELSE "unknown"

NoExtractionCalls ==
    \A j \in 1..Len(calls) :
        calls[j] \notin {"parse", "extract_title", "extract_content", "extract_metadata"}

\* C6: when the fetch fails (timeout, connection error, HTTP status),
\* crawl_article returns success = FALSE with the fetch failure message as
\* error, "Request timeout" for a timeout, and neither parses nor extracts.
C6_FetchFailureShortCircuits ==
    (Returned /\ net.kind \in {"timeout", "connection", "http_status"})
    => /\ result.success = FALSE
       /\ result.error # None
       /\ result.error[1] \in {"Request timeout", "Request error: "}
       /\ (net.kind = "timeout" => result.error = <<"Request timeout">>)
       /\ NoExtractionCalls
       /\ result.title = NoText /\ result.content = NoText
       /\ result.metadata = EmptyDict

\* C6 witness: a crawl whose fetch timed out.
C6_Witness ==
    /\ Returned /\ net.kind = "timeout"
    /\ result.error = <<"Request timeout">>
    /\ calls = <<"identify_source", "fetch_url">>

\* C7 as stated: when main ends, the results list holds exactly one result per
\* URL, result i being for URL i.
C7_OneResultPerUrl ==
    pc \in {"done", "crashed"}
    => /\ Len(results) = Len(test_urls)
       /\ \A j \in 1..Len(results) : results[j].url = test_urls[j]

\* The document has no article, no main and no content-identified container.
NoGenericContainer(d) ==
    /\ ~HasArticle(d) /\ ~HasMain(d)
    /\ ~HasContentIdentified(d)

EmptyAndTooShort ==
    /\ result.content = NoText
    /\ result.content_length = 0
    /\ result.success = FALSE
    /\ ErrorEndsTooShortZero(result.error)

\* C8 as stated: for a fetched document with no article, no main and no
\* content-identified container, the content is empty for every source id and
\* the result is a failure with error "content too short (0 chars)".
C8_NoContainerEmpty ==
    (Extracted /\ NoGenericContainer(net.html)) => EmptyAndTooShort

SelectorsOf(s) ==
    CASE s = "southcn" -> SouthcnSelectors
      [] s = "ycwb" -> YcwbSelectors
      [] s = "chinanews" -> ChinanewsSelectors
      [] OTHER -> <<>>

\* No selector of the source's extractor matches an element of the document,
\* at either tier.
NoMatchAtAnyTier(s, d) ==
    /\ ~HasArticle(d) /\ ~HasMain(d) /\ ~HasDivIdContent(d)
    /\ s = "unknown" => ~HasDivClassContent(d)
    /\ \A k \in 1..Len(SelectorsOf(s)) : \A i \in 1..Len(d) :
          ~Matches(SelectorsOf(s)[k], d[i])

\* C8 as amended: for a fetched document in which no selector of the source's
\* extractor matches at any tier, the content is empty and the result is a
\* failure with error "Extracted content too short (0 chars)".
C8_NoMatchEmpty ==
    (Extracted /\ NoMatchAtAnyTier(result.source, net.html))
    => /\ EmptyAndTooShort
       /\ result.error = <<"Extracted ", "content too short (", "0", " chars)">>

\* C8 witness: a document that holds text, none of it in an element a selector
\* matches, crawled for a known source.
C8_Witness ==
    /\ Extracted /\ NoMatchAtAnyTier(result.source, net.html)
    /\ result.source \in KnownSources
    /\ \E i \in 1..Len(net.html) : net.html[i].len > 100
    /\ EmptyAndTooShort

\* The document's only content container is one article element.
OnlyArticle(d) ==
    /\ Cardinality({ i \in 1..Len(d) : IsArticle(d[i]) }) = 1
    /\ ~HasMain(d) /\ ~HasContentIdentified(d)

TheArticle(d) == CHOOSE i \in 1..Len(d) : IsArticle(d[i])

\* C9: for a URL classified unknown whose document's only content container is
\* an article whose text (as extracted, after the element stripping) has
\* length L > 100, the content is exactly the article's text and the result is
\* a success; 100 < L < 200 included.
C9_ArticleOnly ==
    (Extracted /\ result.source = "unknown" /\ OnlyArticle(net.html)
        /\ GetText(net.html, alive, TheArticle(net.html)).len > 100)
    => /\ result.content = GetText(net.html, alive, TheArticle(net.html))
       /\ result.success

\* C9 witness: such a crawl with an article text between the two thresholds.
C9_Witness ==
    /\ Extracted /\ result.source = "unknown" /\ OnlyArticle(net.html)
    /\ GetText(net.html, alive, TheArticle(net.html)).len > 100
    /\ GetText(net.html, alive, TheArticle(net.html)).len < 200
    /\ result.success

\* The first container that exists in the order main, article,
\* content-identified container (the id, then for the unknown source the
\* class), 0 when none exists.
PriorityContainer(s, d, al) ==
    OrElse(FindTag(d, al, "main"),
      OrElse(FindTag(d, al, "article"),
        OrElse(FindDivId(d, al, "content"),
               IF s = "unknown" THEN FindDivClass(d, al, "content") ELSE 0)))

\* C10 as stated: whenever the generic fallback tier runs (always for the
\* unknown source), the text returned is that of the first existing container
\* in the order main, article, content-identified container.
C10_FallbackPriority ==
    (pc = "extract" /\ outs # <<>> /\ ext.fb
        /\ PriorityContainer(src, doc, alive) # 0)
    => Last(outs) = GetText(doc, alive, PriorityContainer(src, doc, alive))

\* The first piece of each message crawl_article may store in error.
FetchMessages == {"Request timeout", "Request error: ", "Unexpected error: "}
ParseMessages == {"HTML parsing error: "}
TooShortMessages == {"Extracted "}

\* C11: in every result crawl_article returns, error is populated exactly
\* when success is FALSE, and then it is the fetch failure message (when the
\* fetch failed), the parse failure message (when the parse failed) or the
\* content-too-short message (when the extraction completed); a successful
\* result carries no error.
C11_ErrorIffFailure ==
    Returned
    => /\ (result.error # None) <=> ~result.success
       /\ ~result.success =>
             result.error[1] \in
                 IF net.kind # "ok" THEN FetchMessages
                 ELSE IF net.html = Unparseable THEN ParseMessages
                 ELSE TooShortMessages

\* C11 witness: an extraction that completed with too little text and
\* reports it.
C11_Witness ==
    /\ Extracted
    /\ ~result.success
    /\ result.error = <<"Extracted ", "content too short (", "100", " chars)">>

\* C12 as stated: identify_source never raises: for every URL, malformed ones
\* included, it returns one of the four source ids.
C12_NeverRaises ==
    pc = "classified" => source \in SourceIds

\* C13 as stated: every result crawl_article returns, on the fetch-failure and
\* parse-failure paths too, carries a metadata record with the fields author,
\* publish_date and source_url, and source_url is the result's url.
C13_MetadataComplete ==
    Returned
    => /\ DOMAIN result.metadata = {"author", "publish_date", "source_url"}
       /\ result.metadata.source_url = result.url

\* The title selectors in the order the claim gives them.
ClaimedTitleOrder ==
    << Sel("h1", <<>>, ""),
       Sel("title", <<>>, ""),
       Sel("h1", <<"article", "title">>, ""),
       Sel("div", <<"title">>, ""),
       Sel("h1", <<>>, "title") >>

\* The text of the first element selector k matches, empty when none.
FirstMatchTitle(k) ==
    LET e == SelectOne(doc, alive, ClaimedTitleOrder[k])
    IN IF e = 0 THEN NoText ELSE GetTextJoined(doc, alive, e)

\* Selector k matches an element whose text is longer than 5 characters.
TitleQualifies(k) ==
    /\ SelectOne(doc, alive, ClaimedTitleOrder[k]) # 0
    /\ FirstMatchTitle(k).len > 5

\* C14: extract_title returns the text of the first selector, in the order
\* h1, title, h1.article-title, div.title, h1[class*=title], whose first
\* matching element has text longer than 5 characters (a selector whose first
\* match has text of length <= 5 is skipped), and the empty string when no
\* selector qualifies; a returned title is empty or longer than 5 characters.
C14_FirstQualifyingTitle ==
    pc = "titled"
    => LET q == { k \in 1..Len(ClaimedTitleOrder) : TitleQualifies(k) }
       IN /\ Last(outs) = IF q = {} THEN NoText ELSE FirstMatchTitle(Min(q))
          /\ Last(outs).len = 0 \/ Last(outs).len > 5

\* C14 witness: the h1 selector matches an element with exactly 5 characters,
\* which is skipped, and a later selector supplies the title.
C14_Witness ==
    /\ pc = "titled"
    /\ SelectOne(doc, alive, ClaimedTitleOrder[1]) # 0
    /\ FirstMatchTitle(1).len = 5
    /\ Last(outs).len > 5
    /\ Last(outs) # FirstMatchTitle(1)

\* The fetches one crawl_article call issued.
Fetches == { j \in 1..Len(calls) : calls[j] = "fetch_url" }

\* C15: one crawl_article call issues at most one fetch; after a failed
\* fetch nothing more is done in that call and the failure is its outcome.
C15_SingleFetch ==
    pc \in {"returned", "raised"}
    => /\ Cardinality(Fetches) <= 1
       /\ (Returned /\ net.kind # "ok")
            => /\ Cardinality(Fetches) = 1
               /\ Last(calls) = "fetch_url"
               /\ ~result.success
               /\ result.error[1] \in FetchMessages

\* C15 witness: a call whose only fetch failed on the connection.
C15_Witness ==
    /\ Returned /\ net.kind = "connection"
    /\ Cardinality(Fetches) = 1
    /\ result.error = <<"Request error: ", "connection">>

\* C16: in the batch loop the URLs are fetched one at a time in list order,
\* and each fetch is followed by exactly one delay before the next fetch,
\* whether the URL succeeded or failed: the fetches and delays alternate,
\* fetch i then delay i, for i = 1, 2, ...
C16_FetchDelayAlternate ==
    /\ Len(events) = 2 * Len(results)
    /\ \A p \in 1..Len(events) :
          events[p] = Event(IF p % 2 = 1 THEN "fetch" ELSE "sleep", (p + 1) \div 2)

\* C16 witness: two URLs were fetched, the first one failed, and one delay
\* lies between the two fetches.
C16_Witness ==
    /\ Len(events) = 4
    /\ ~results[1].success
    /\ events[1] = Event("fetch", 1)
    /\ events[2] = Event("sleep", 1)
    /\ events[3] = Event("fetch", 2)

\* C17 as stated: a content-extractor call leaves the parsed document
\* unchanged: after the call it holds the same elements as before.
C17_DocumentUnchanged ==
    (pc = "extract" /\ outs # <<>>) => alive = AllOf(doc)

\* C18 as stated: the author and publish_date of a result are the text of the
\* first matching author / date selector in the document as fetched and
\* parsed, wherever the matching element lies.
C18_MetadataFromFetchedDocument ==
    Extracted
    => /\ result.metadata.author =
             FirstMatchText(net.html, AllOf(net.html), AuthorSelectors, 1)
       /\ result.metadata.publish_date =
             FirstMatchText(net.html, AllOf(net.html), DateSelectors, 1)

====
